---- MODULE Spec2Model ----
(***************************************************************************)
(* A model of polymer-modulizer's DocumentConverter                        *)
(* (src/src/document-converter.ts): the conversion of a graph of HTML      *)
(* documents to JS modules, and the syntax-tree rewriting pipeline that    *)
(* convert() runs on one document.                                         *)
(*                                                                         *)
(* Syntax trees are records with a "type" field, named as in estree.       *)
(* Indexes into program.body are 0-based as in the source; body[i] of the  *)
(* source is body[i + 1] here.                                             *)
(***************************************************************************)
EXTENDS Integers, Sequences, FiniteSets, TLC

\* ------------------------------------------------------------------ bounds

\* Largest number of HTML-import edges of the analysis.
MaxEdges == 3
\* Longest script (top-level statements) of the document under conversion.
MaxStmts == 2
\* Direct constructions of a DocumentConverter by a client of the class.
MaxApiCalls == 2

\* ------------------------------------------------------------- syntax tree

\* An absent node (null / undefined child).
NullNode == [type |-> "Null"]
\* An absent string (undefined).
Undefined == "<undefined>"
\* The absent result of getMemberPath; a path always has a segment.
NoPath == <<>>

Id(name) == [type |-> "Identifier", name |-> name]
This == [type |-> "ThisExpression"]
Lit(v) == [type |-> "Literal", value |-> v]
Member(obj, prop) ==
  [type |-> "MemberExpression", object |-> obj, property |-> prop]
Call(callee, args) ==
  [type |-> "CallExpression", callee |-> callee, arguments |-> args]
Block(stmts) == [type |-> "BlockStatement", body |-> stmts]
Fn(stmts) == [type |-> "FunctionExpression", params |-> <<>>,
              body |-> Block(stmts), generator |-> FALSE]
Arrow(e) == [type |-> "ArrowFunctionExpression", params |-> <<>>, body |-> e]
Prop(key, value) == [type |-> "Property", key |-> key, value |-> value]
Obj(props) == [type |-> "ObjectExpression", properties |-> props]
Arr(elems) == [type |-> "ArrayExpression", elements |-> elems]
Assign(left, right) ==
  [type |-> "AssignmentExpression", left |-> left, right |-> right]
Return(e, loc) == [type |-> "ReturnStatement", argument |-> e, loc |-> loc]
TemplateLiteral(html) == [type |-> "TemplateLiteral", html |-> html]
\* A string literal holding a URL.
LitUrl(url) == [type |-> "Literal", url |-> url]
\* Statements carry the source location the parser gave them; a node built
\* by the converter has none (loc 0).
ExprStmt(e, loc) == [type |-> "ExpressionStatement", expression |-> e, loc |-> loc]
VarDecl(kind, id, init, loc) ==
  [type |-> "VariableDeclaration", kind |-> kind,
   declarations |-> <<[type |-> "VariableDeclarator", id |-> id, init |-> init]>>,
   loc |-> loc]
FunctionDeclaration(id, params, body, generator) ==
  [type |-> "FunctionDeclaration", id |-> id, params |-> params, body |-> body,
   generator |-> generator, loc |-> 0]
ExportSpecifier(local, exported) ==
  [type |-> "ExportSpecifier", local |-> local, exported |-> exported]
ExportNamed(declaration, specifiers) ==
  [type |-> "ExportNamedDeclaration", declaration |-> declaration,
   specifiers |-> specifiers, loc |-> 0]
ImportSpecifier(imported, local) ==
  [type |-> "ImportSpecifier", imported |-> imported, local |-> local]
ImportNamespaceSpecifier(local) ==
  [type |-> "ImportNamespaceSpecifier", local |-> local]
ImportDeclaration(specifiers, source) ==
  [type |-> "ImportDeclaration", specifiers |-> specifiers, source |-> source,
   loc |-> 0]

\* The child fields of a node in ast-types' traversal order; list marks a
\* field holding an array of nodes.
F(name) == [name |-> name, list |-> FALSE]
L(name) == [name |-> name, list |-> TRUE]
Fields(type) ==
  CASE type = "MemberExpression" -> <<F("object"), F("property")>>
    [] type = "CallExpression" -> <<F("callee"), L("arguments")>>
    [] type = "BlockStatement" -> <<L("body")>>
    [] type = "FunctionExpression" -> <<L("params"), F("body")>>
    [] type = "ArrowFunctionExpression" -> <<L("params"), F("body")>>
    [] type = "FunctionDeclaration" -> <<F("id"), L("params"), F("body")>>
    [] type = "Property" -> <<F("key"), F("value")>>
    [] type = "ObjectExpression" -> <<L("properties")>>
    [] type = "ArrayExpression" -> <<L("elements")>>
    [] type = "AssignmentExpression" -> <<F("left"), F("right")>>
    [] type = "ReturnStatement" -> <<F("argument")>>
    [] type = "ExpressionStatement" -> <<F("expression")>>
    [] type = "VariableDeclaration" -> <<L("declarations")>>
    [] type = "VariableDeclarator" -> <<F("id"), F("init")>>
    [] type = "ExportSpecifier" -> <<F("local"), F("exported")>>
    [] type = "ExportNamedDeclaration" -> <<F("declaration"), L("specifiers")>>
    [] type = "ImportSpecifier" -> <<F("imported"), F("local")>>
    [] type = "ImportNamespaceSpecifier" -> <<F("local")>>
    [] type = "ImportDeclaration" -> <<L("specifiers"), F("source")>>
    [] type = "Program" -> <<L("body")>>
    [] OTHER -> <<>>

RECURSIVE Join(_)
Join(path) ==
  IF Len(path) = 0 THEN ""
  ELSE IF Len(path) = 1 THEN path[1]
  ELSE path[1] \o "." \o Join(Tail(path))

RECURSIVE getMemberPath(_)
getMemberPath(expression) ==
  IF expression.type # "MemberExpression" THEN NoPath
  ELSE IF expression.property.type # "Identifier" THEN NoPath
  ELSE LET property == expression.property.name
           object == expression.object
       IN CASE object.type = "ThisExpression" -> <<"this", property>>
            [] object.type = "Identifier" ->
                 IF object.name = "window" THEN <<property>>
                 ELSE <<object.name, property>>
            [] object.type = "MemberExpression" ->
                 LET prefixPath == getMemberPath(object)
                 IN IF prefixPath # NoPath THEN Append(prefixPath, property)
                    ELSE NoPath
            [] OTHER -> NoPath

getImportAlias(importId) == "$" \o importId

\* -------------------------------------------------------------------- URLs

\* A URL: `up` leading "../" segments, the directory segments, the file's
\* base name as its dash-separated words, its extension, and whether the
\* string starts with "./".
Url(dir, base, ext) ==
  [up |-> 0, dir |-> dir, base |-> base, ext |-> ext, dot |-> FALSE]
\* The absent `from` argument of htmlUrlToJs.
NoFrom == [up |-> 0, dir |-> <<>>, base |-> <<>>, ext |-> "", dot |-> FALSE]

RECURSIVE CommonPrefixLen(_, _)
CommonPrefixLen(a, b) ==
  IF Len(a) = 0 \/ Len(b) = 0 \/ a[1] # b[1] THEN 0
  ELSE 1 + CommonPrefixLen(Tail(a), Tail(b))

\* path.relative(path.dirname(from), url) for paths below the working
\* directory.
PathRelative(fromDir, url) ==
  LET k == CommonPrefixLen(fromDir, url.dir)
  IN [url EXCEPT !.up = Len(fromDir) - k,
                 !.dir = SubSeq(url.dir, k + 1, Len(url.dir)),
                 !.dot = FALSE]

\* An HTML URL to the URL of its JS module; with `from`, relative to the
\* directory of `from`, as an import specifier of the module at `from`.
htmlUrlToJs(url, from) ==
  LET jsUrl == IF url.ext = "html" THEN [url EXCEPT !.ext = "js"] ELSE url
      rel == IF from # NoFrom THEN PathRelative(from.dir, jsUrl) ELSE jsUrl
  IN IF rel.up = 0 THEN [rel EXCEPT !.dot = TRUE] ELSE rel

Capitalize(word) ==
  CASE word = "el" -> "El"
    [] word = "a" -> "A"
    [] word = "b" -> "B"
    [] OTHER -> word

RECURSIVE dashToCamelCase(_)
dashToCamelCase(words) ==
  IF Len(words) = 0 THEN ""
  ELSE IF Len(words) = 1 THEN words[1]
  ELSE dashToCamelCase(
         <<words[1] \o Capitalize(words[2])>> \o SubSeq(words, 3, Len(words)))

getModuleId(url) == "$$" \o dashToCamelCase(url.base)

\* ---------------------------------------------------------------- JS maps

\* Map.prototype.set on a map kept as a function.
MapSet(m, k, v) == [x \in DOMAIN m \cup {k} |-> IF x = k THEN v ELSE m[x]]
EmptyMap == [x \in {} |-> {}]

\* importedReferences: Map<string, Set<string>> in insertion order, a
\* sequence of [url, names]; a Set in insertion order, a sequence without
\* repetition.
Range(seq) == {seq[i] : i \in 1..Len(seq)}
SetAdd(seq, x) == IF x \in Range(seq) THEN seq ELSE Append(seq, x)
RECURSIVE RefsIndex(_, _)
RefsIndex(refs, url) ==
  IF Len(refs) = 0 THEN 0
  ELSE IF refs[Len(refs)].url = url THEN Len(refs)
  ELSE RefsIndex(SubSeq(refs, 1, Len(refs) - 1), url)
RefsHas(refs, url) == RefsIndex(refs, url) # 0
RefsGet(refs, url) ==
  IF RefsHas(refs, url) THEN refs[RefsIndex(refs, url)].names ELSE <<>>
RefsKeys(refs) == {refs[i].url : i \in 1..Len(refs)}

\* --------------------------------------------------------------- visitors

\* replacePathWithExportIdentifier: the identifier that replaces a reference
\* to moduleExport of jsModule.
replacePathWithExportIdentifier(moduleExport, jsModule) ==
  IF moduleExport.name = "*" THEN Id(getModuleId(jsModule.url))
  ELSE Id(getImportAlias(moduleExport.name))

\* astTypes.visit with the visitor methods of one pass (mode):
\*   "refs"     rewriteNamespacedReferences' visitIdentifier and
\*              visitMemberExpression
\*   "excluded" rewriteExcludedReferences' visitMemberExpression
\*   "local"    rewriteLocalNamespacedReferences' visitMemberExpression
\*   "this"     rewriteSingleScopeThisReferences' three methods
\*   "exports"  rewriteNamespaceThisReferences' visitExportNamedDeclaration
\* A visit gives the node that stands in the place of the visited one and
\* the module exports the pass recorded, in visiting order.
RECURSIVE Visit(_, _, _, _), VisitList(_, _, _, _, _), VisitFields(_, _, _, _, _)
Traverse(mode, ctx, node) == VisitFields(mode, ctx, node, Fields(node.type), 1)

VisitFields(mode, ctx, node, fs, k) ==
  IF k > Len(fs) THEN [node |-> node, out |-> <<>>]
  ELSE LET f == fs[k]
           r == IF f.list THEN VisitList(mode, ctx, node[f.name], node, 1)
                ELSE Visit(mode, ctx, node[f.name], node)
           rest == VisitFields(mode, ctx, [node EXCEPT ![f.name] = r.node], fs, k + 1)
       IN [node |-> rest.node, out |-> r.out \o rest.out]

VisitList(mode, ctx, list, parent, k) ==
  IF k > Len(list) THEN [node |-> list, out |-> <<>>]
  ELSE LET r == Visit(mode, ctx, list[k], parent)
           rest == VisitList(mode, ctx, [list EXCEPT ![k] = r.node], parent, k + 1)
       IN [node |-> rest.node, out |-> r.out \o rest.out]

visitIdentifier(ctx, node, parent) ==
  LET memberName == node.name
      isRootModuleIdentifier == memberName \in ctx.namespaces
  IN IF ~isRootModuleIdentifier
        \/ (parent.type # "Null" /\ getMemberPath(parent) # NoPath)
     THEN [node |-> node, out |-> <<>>]
     ELSE IF memberName \notin DOMAIN ctx.namespacedExports
     THEN [node |-> node, out |-> <<>>]
     ELSE LET moduleExport == ctx.namespacedExports[memberName]
              jsModule == ctx.modules[moduleExport.url]
          IN [node |-> replacePathWithExportIdentifier(moduleExport, jsModule),
              out |-> <<moduleExport>>]

\* visitMemberExpression that goes no further into a chain whose whole path is
\* not registered.
visitMemberExpressionWholePathOnly(ctx, node) ==
  LET memberPath == getMemberPath(node)
      memberName == Join(memberPath)
  IN IF memberPath = NoPath THEN Traverse("refs", ctx, node)
     ELSE IF memberName \notin DOMAIN ctx.namespacedExports
     THEN [node |-> node, out |-> <<>>]
     ELSE LET moduleExport == ctx.namespacedExports[memberName]
              jsModule == ctx.modules[moduleExport.url]
          IN [node |-> replacePathWithExportIdentifier(moduleExport, jsModule),
              out |-> <<moduleExport>>]

visitMemberExpression(ctx, node) ==
  LET memberPath == getMemberPath(node)
      memberName == Join(memberPath)
  IN IF memberPath = NoPath THEN Traverse("refs", ctx, node)
     ELSE IF memberName \notin DOMAIN ctx.namespacedExports
     THEN Traverse("refs", ctx, node)
     ELSE LET moduleExport == ctx.namespacedExports[memberName]
              jsModule == ctx.modules[moduleExport.url]
          IN [node |-> replacePathWithExportIdentifier(moduleExport, jsModule),
              out |-> <<moduleExport>>]

visitExcludedMemberExpression(ctx, node) ==
  LET memberPath == getMemberPath(node)
  IN IF memberPath # NoPath /\ Join(memberPath) \in ctx.referenceExcludes
     THEN [node |-> Id("undefined"), out |-> <<>>]
     ELSE Traverse("excluded", ctx, node)

visitLocalMemberExpression(ctx, node) ==
  LET memberPath == getMemberPath(node)
      memberName == IF memberPath = NoPath THEN ""
                    ELSE Join(SubSeq(memberPath, 1, Len(memberPath) - 1))
  IN IF memberName # "" /\ memberName = ctx.namespaceName
     THEN [node |-> node.property, out |-> <<>>]
     ELSE Traverse("local", ctx, node)

visitExportNamedDeclaration(ctx, node) ==
  IF node.declaration.type = "FunctionDeclaration"
  THEN LET body == Visit("this", ctx, node.declaration.body, node.declaration).node
       IN [node |-> [node EXCEPT !.declaration.body = body], out |-> <<>>]
  ELSE [node |-> node, out |-> <<>>]

Visit(mode, ctx, node, parent) ==
  CASE mode = "refs" /\ node.type = "Identifier" -> visitIdentifier(ctx, node, parent)
    [] mode = "refs" /\ node.type = "MemberExpression" -> visitMemberExpression(ctx, node)
    [] mode = "excluded" /\ node.type = "MemberExpression" ->
         visitExcludedMemberExpression(ctx, node)
    [] mode = "local" /\ node.type = "MemberExpression" ->
         visitLocalMemberExpression(ctx, node)
    [] mode = "this" /\ node.type \in {"FunctionExpression", "FunctionDeclaration"} ->
         [node |-> node, out |-> <<>>]
    [] mode = "this" /\ node.type = "ThisExpression" ->
         [node |-> Id(ctx.namespaceName), out |-> <<>>]
    [] mode = "exports" /\ node.type = "ExportNamedDeclaration" ->
         visitExportNamedDeclaration(ctx, node)
    [] OTHER -> Traverse(mode, ctx, node)

\* The program as astTypes.visit sees it.
Program(body) == [type |-> "Program", body |-> body]

\* ------------------------------------------------------------ array helpers

Min(a, b) == IF a < b THEN a ELSE b
Max(a, b) == IF a > b THEN a ELSE b

\* Array.prototype.splice(start, deleteCount, ...items), 0-based.
Splice(arr, start, deleteCount, items) ==
  LET len == Len(arr)
      from == IF start < 0 THEN Max(len + start, 0) ELSE Min(start, len)
      del == Min(Max(deleteCount, 0), len - from)
  IN SubSeq(arr, 1, from) \o items \o SubSeq(arr, from + del + 1, len)

\* Array.prototype.indexOf, 0-based, -1 when absent.
RECURSIVE IndexFrom(_, _, _)
IndexFrom(arr, x, k) ==
  IF k > Len(arr) THEN -1
  ELSE IF arr[k] = x THEN k - 1
  ELSE IndexFrom(arr, x, k + 1)
IndexOf(arr, x) == IndexFrom(arr, x, 1)

\* The source location of a node: 0 for a node the converter built, and a
\* location no other node has for the parsed nodes the model gives none.
LocOf(node) == IF "loc" \in DOMAIN node THEN node.loc ELSE -1

sourceLocationsEqual(a, b) == LocOf(a) # -1 /\ LocOf(a) = LocOf(b)

\* getNode: visitNode does not stop the visit at a node at the location of
\* `node`, it only keeps out of that node: the result is the last such node
\* in visiting order, NullNode when there is none.
RECURSIVE FindNode(_, _), FindInList(_, _, _), FindInFields(_, _, _, _)
FindNode(root, node) ==
  IF sourceLocationsEqual(root, node) THEN root
  ELSE FindInFields(root, node, Fields(root.type), 1)
FindInFields(root, node, fs, k) ==
  IF k > Len(fs) THEN NullNode
  ELSE LET f == fs[k]
           r == IF f.list THEN FindInList(root[f.name], node, 1)
                ELSE FindNode(root[f.name], node)
           later == FindInFields(root, node, fs, k + 1)
       IN IF later # NullNode THEN later ELSE r
FindInList(list, node, k) ==
  IF k > Len(list) THEN NullNode
  ELSE LET r == FindNode(list[k], node)
           later == FindInList(list, node, k + 1)
       IN IF later # NullNode THEN later ELSE r
getNode(body, node) == FindNode(Program(body), node)

\* ------------------------------------------------------- statement helpers

isUseStrict(statement) ==
  /\ statement.type = "ExpressionStatement"
  /\ statement.expression.type = "Literal"
  /\ "value" \in DOMAIN statement.expression
  /\ statement.expression.value = "use strict"

isDeclaration(node) == node.type = "ClassDeclaration"

\* getExport: [defined, namespace, value].
NoExport == [defined |-> FALSE, namespace |-> NoPath, value |-> NullNode]
getExport(statement, namespaces) ==
  IF ~(statement.type = "ExpressionStatement"
       /\ statement.expression.type = "AssignmentExpression")
  THEN NoExport
  ELSE LET assignment == statement.expression
           namespace == getMemberPath(assignment.left)
       IN IF assignment.left.type # "MemberExpression" THEN NoExport
          ELSE IF namespace # NoPath /\ namespace[1] \in namespaces
          THEN [defined |-> TRUE, namespace |-> namespace, value |-> assignment.right]
          ELSE NoExport

\* getNamespaceExports: one [name, node] per supported member, in member
\* order. mutableExports is the list configured for the namespace (<<>> when
\* there is none).
RECURSIVE getNamespaceExports(_, _)
getNamespaceExports(properties, mutableExports) ==
  IF Len(properties) = 0 THEN <<>>
  ELSE LET key == properties[1].key
           value == properties[1].value
           name == key.name
           rest == getNamespaceExports(Tail(properties), mutableExports)
       IN IF key.type # "Identifier" THEN rest
          ELSE CASE value.type \in {"ObjectExpression", "ArrayExpression", "Literal"} ->
                      LET isMutable == name \in Range(mutableExports)
                      IN <<[name |-> name,
                            node |-> ExportNamed(
                              VarDecl(IF isMutable THEN "let" ELSE "const", key, value, 0),
                              <<>>)]>> \o rest
                 [] value.type = "FunctionExpression" ->
                      <<[name |-> name,
                         node |-> ExportNamed(
                           FunctionDeclaration(key, value.params, value.body,
                                               value.generator),
                           <<>>)]>> \o rest
                 [] value.type = "ArrowFunctionExpression" ->
                      <<[name |-> name,
                         node |-> ExportNamed(VarDecl("const", key, value, 0), <<>>)]>>
                      \o rest
                 [] value.type = "Identifier" ->
                      <<[name |-> name,
                         node |-> ExportNamed(
                           NullNode, <<ExportSpecifier(Id(name), Id(name))>>)]>> \o rest
                 [] OTHER -> rest

\* getImportDeclarations; namedExports is <<>> when there are none.
getImportDeclarations(specifierUrl, namedExports) ==
  LET hasNamespaceReference == "*" \in Range(namedExports)
      named == SelectSeq(namedExports, LAMBDA n : n # "*")
      namedSpecifiers ==
        [i \in 1..Len(named) |->
           ImportSpecifier(Id(named[i]), Id(getImportAlias(named[i])))]
  IN (IF hasNamespaceReference
      THEN <<ImportDeclaration(
               <<ImportNamespaceSpecifier(Id(getModuleId(specifierUrl)))>>,
               LitUrl(specifierUrl))>>
      ELSE <<>>)
     \o (IF Len(namedSpecifiers) > 0 \/ ~hasNamespaceReference
         THEN <<ImportDeclaration(namedSpecifiers, LitUrl(specifierUrl))>>
         ELSE <<>>)

\* ----------------------------------------------------------- configuration

\* analysisConverter.namespaces: the root names of the known namespaces.
Namespaces == {"Polymer", "Foo"}
\* analysisConverter._mutableExports: namespace path -> member names.
MutableExports == [p \in {"Polymer.Settings"} |-> <<"m", "g">>]
\* analysisConverter._referenceExcludes.
ReferenceExcludes == {"Polymer.Settings.x"}
elementBlacklist == {"base", "link", "meta", "script", "dom-module"}

\* ------------------------------------------------------- the rewrite phases
\* A phase is an operator on the state of one conversion, cs:
\*   body, currentStatementIndex  this.program.body and the cursor
\*   localNamespaceName, namespaceName  rewriteNamespaceExports' two results
\*   exports                     this.module.exports
\*   namespacedExports           analysisConverter.namespacedExports
\*   addExportLog                the paths addExport was called with, in order
\*   threw                       an exception left the phase
\* in the environment env of the converter: document (url, imports, features,
\* elements), jsUrl, hasScript (scriptDocument is set), excludes, modules.

getHtmlImports(document, excl) ==
  SelectSeq(document.imports, LAMBDA f : f.url \notin excl)

addExport(env, cs, namespaceName, name) ==
  [cs EXCEPT !.exports = @ \cup {name},
             !.namespacedExports =
                MapSet(@, namespaceName, [url |-> env.jsUrl, name |-> name]),
             !.addExportLog = Append(@, namespaceName)]

unwrapModuleBody(body) ==
  IF Len(body) = 1 /\ body[1].type = "ExpressionStatement"
  THEN LET expression == body[1].expression
       IN IF expression.type = "CallExpression"
             /\ expression.callee.type = "FunctionExpression"
          THEN LET inner == expression.callee.body.body
               IN IF Len(inner) > 1 /\ isUseStrict(inner[1]) THEN Tail(inner)
                  ELSE inner
          ELSE body
  ELSE body

addToImportedReferences(importedReferences, moduleExport, baseUrl) ==
  LET moduleJsUrl == htmlUrlToJs(moduleExport.url, baseUrl)
      i == RefsIndex(importedReferences, moduleJsUrl)
  IN IF i = 0
     THEN Append(importedReferences,
                 [url |-> moduleJsUrl, names |-> <<moduleExport.name>>])
     ELSE [importedReferences EXCEPT ![i].names = SetAdd(@, moduleExport.name)]

RECURSIVE AddAllToImportedReferences(_, _, _)
AddAllToImportedReferences(importedReferences, moduleExports, baseUrl) ==
  IF Len(moduleExports) = 0 THEN importedReferences
  ELSE AddAllToImportedReferences(
         addToImportedReferences(importedReferences, moduleExports[1], baseUrl),
         Tail(moduleExports), baseUrl)

\* rewriteNamespacedReferences: [body, importedReferences].
rewriteNamespacedReferences(env, body, namespacedExports_, importedReferences) ==
  LET ctx == [namespaces |-> Namespaces, namespacedExports |-> namespacedExports_,
              modules |-> env.modules]
      r == Visit("refs", ctx, Program(body), NullNode)
  IN [body |-> r.node.body,
      importedReferences |->
        AddAllToImportedReferences(importedReferences, r.out, env.document.url)]

RECURSIVE Dedup(_)
Dedup(seq) ==
  IF Len(seq) = 0 THEN <<>>
  ELSE SetAdd(Dedup(SubSeq(seq, 1, Len(seq) - 1)), seq[Len(seq)])

RECURSIVE Flatten(_)
Flatten(seqs) == IF Len(seqs) = 0 THEN <<>> ELSE seqs[1] \o Flatten(Tail(seqs))

\* addJsImports with the declarations of the implicit imports put first.
addJsImportsImplicitFirst(env, body, currentStatementIndex, importedReferences) ==
  LET baseUrl == env.document.url
      htmlImports == getHtmlImports(env.document, env.excludes)
      jsImportUrls ==
        Dedup([i \in 1..Len(htmlImports) |-> htmlUrlToJs(htmlImports[i].url, baseUrl)])
      explicit ==
        [i \in 1..Len(jsImportUrls) |->
           getImportDeclarations(jsImportUrls[i],
                                 RefsGet(importedReferences, jsImportUrls[i]))]
      implicitRefs ==
        SelectSeq(importedReferences, LAMBDA e : e.url \notin Range(jsImportUrls))
      implicit ==
        [i \in 1..Len(implicitRefs) |->
           getImportDeclarations(implicitRefs[i].url, implicitRefs[i].names)]
      jsImportDeclarations == Flatten(implicit) \o Flatten(explicit)
  IN [body |-> Splice(body, 0, 0, jsImportDeclarations),
      currentStatementIndex |-> currentStatementIndex + Len(jsImportDeclarations)]

\* addJsImports: [body, currentStatementIndex].
addJsImports(env, body, currentStatementIndex, importedReferences) ==
  LET baseUrl == env.document.url
      htmlImports == getHtmlImports(env.document, env.excludes)
      jsImportUrls ==
        Dedup([i \in 1..Len(htmlImports) |-> htmlUrlToJs(htmlImports[i].url, baseUrl)])
      explicit ==
        [i \in 1..Len(jsImportUrls) |->
           getImportDeclarations(jsImportUrls[i],
                                 RefsGet(importedReferences, jsImportUrls[i]))]
      implicitRefs ==
        SelectSeq(importedReferences, LAMBDA e : e.url \notin Range(jsImportUrls))
      implicit ==
        [i \in 1..Len(implicitRefs) |->
           getImportDeclarations(implicitRefs[i].url, implicitRefs[i].names)]
      jsImportDeclarations == Flatten(explicit) \o Flatten(implicit)
  IN [body |-> Splice(body, 0, 0, jsImportDeclarations),
      currentStatementIndex |-> currentStatementIndex + Len(jsImportDeclarations)]

\* convertElements without the advance of the cursor (line 234).
convertElementsCursorKept(env, body, currentStatementIndex) ==
  LET genericElements ==
        SelectSeq(env.document.elements, LAMBDA e : e \notin elementBlacklist)
      varName == "$_documentContainer"
      statements == <<
        VarDecl("const", Id(varName),
                Call(Member(Id("document"), Id("createElement")), <<Lit("div")>>), 0),
        ExprStmt(Call(Member(Id(varName), Id("setAttribute")),
                      <<Lit("style"), Lit("display: none;")>>), 0),
        ExprStmt(Assign(Member(Id(varName), Id("innerHTML")),
                        TemplateLiteral(genericElements)), 0),
        ExprStmt(Call(Member(Id("document"), Id("appendChild")),
                      <<Id(varName)>>), 0) >>
  IN IF Len(genericElements) = 0
     THEN [body |-> body, currentStatementIndex |-> currentStatementIndex]
     ELSE [body |-> Splice(body, currentStatementIndex, 0, statements),
           currentStatementIndex |-> currentStatementIndex]

\* convertElements: [body, currentStatementIndex]. document.elements are the
\* tag names of the element children of head and body, in order.
convertElements(env, body, currentStatementIndex) ==
  LET genericElements ==
        SelectSeq(env.document.elements, LAMBDA e : e \notin elementBlacklist)
      varName == "$_documentContainer"
      statements == <<
        VarDecl("const", Id(varName),
                Call(Member(Id("document"), Id("createElement")), <<Lit("div")>>), 0),
        ExprStmt(Call(Member(Id(varName), Id("setAttribute")),
                      <<Lit("style"), Lit("display: none;")>>), 0),
        ExprStmt(Assign(Member(Id(varName), Id("innerHTML")),
                        TemplateLiteral(genericElements)), 0),
        ExprStmt(Call(Member(Id("document"), Id("appendChild")),
                      <<Id(varName)>>), 0) >>
  IN IF Len(genericElements) = 0
     THEN [body |-> body, currentStatementIndex |-> currentStatementIndex]
     ELSE [body |-> Splice(body, currentStatementIndex, 0, statements),
           currentStatementIndex |-> currentStatementIndex + Len(statements)]

\* inlineTemplates: the documents of the model declare no polymer-element
\* feature, so the loop over them has no iteration.
inlineTemplates(env, body) == body

isNamespace(env, node) ==
  /\ env.hasScript
  /\ \E i \in 1..Len(env.document.features) :
       /\ "namespace" \in env.document.features[i].kinds
       /\ sourceLocationsEqual(env.document.features[i].astNode, node)

RECURSIVE AddExports(_, _, _, _)
AddExports(env, cs, name, exports) ==
  IF Len(exports) = 0 THEN cs
  ELSE AddExports(env,
                  addExport(env, cs, name \o "." \o exports[1].name, exports[1].name),
                  name, Tail(exports))

\* rewriteNamespaceObject(name, body, statement); reading the members of a
\* body that is no object literal throws.
rewriteNamespaceObject(env, cs, name, nsNode, statement) ==
  IF nsNode.type # "ObjectExpression" THEN [cs EXCEPT !.threw = TRUE]
  ELSE LET mutableExports ==
             IF name \in DOMAIN MutableExports THEN MutableExports[name] ELSE <<>>
           exports == getNamespaceExports(nsNode.properties, mutableExports)
           nsIndex == IndexOf(cs.body, statement)
           replaced ==
             [cs EXCEPT
                !.body = Splice(@, nsIndex, 1,
                                [i \in 1..Len(exports) |-> exports[i].node]),
                !.currentStatementIndex = @ + Len(exports) - 1]
       IN addExport(env, AddExports(env, replaced, name, exports), name, "*")

\* The first feature of the document known by the identifier id.
RECURSIVE FindFeature(_, _)
FindFeature(features, id) ==
  IF Len(features) = 0 THEN [kinds |-> {}, identifiers |-> {}, astNode |-> NullNode]
  ELSE IF id \in features[1].identifiers THEN features[1]
  ELSE FindFeature(Tail(features), id)

SetStatement(cs, node) ==
  [cs EXCEPT !.body = [@ EXCEPT ![cs.currentStatementIndex + 1] = node]]

\* Polymer.X = X, where X is declared as a namespace (lines 268-294).
rewriteNamespaceIdentifier(env, cs, namespaceName, namespaceFeature) ==
  LET nsParent == getNode(cs.body, namespaceFeature.astNode)
      nsNode ==
        IF nsParent.type = "VariableDeclaration" THEN nsParent.declarations[1].init
        ELSE IF nsParent.type = "ExpressionStatement"
                /\ nsParent.expression.type = "AssignmentExpression"
             THEN nsParent.expression.right
             ELSE NullNode
      r == rewriteNamespaceObject(env, cs, namespaceName, nsNode, nsParent)
  IN IF nsParent = NullNode \/ r.threw THEN [cs EXCEPT !.threw = TRUE]
     ELSE [r EXCEPT !.body = Splice(@, r.currentStatementIndex, 1, <<>>),
                    !.currentStatementIndex = @ - 1]

\* One iteration of rewriteNamespaceExports' loop (lines 244-353). Reading
\* the statement at a negative cursor gives undefined, and getExport throws.
rewriteNamespaceExportsStep(env, cs) ==
  LET statement == cs.body[cs.currentStatementIndex + 1]
      exported == getExport(statement, Namespaces)
      namespace == exported.namespace
      value == exported.value
      namespaceName == Join(namespace)
      referencedFeature == FindFeature(env.document.features, namespaceName)
      last == namespace[Len(namespace)]
      isPolymerFn == namespaceName = "Polymer._polymerFn"
      constName == IF isPolymerFn THEN "Polymer" ELSE last
      constNamespaceName == IF isPolymerFn THEN "Polymer" ELSE namespaceName
      namespaceAssignment == getExport(statement, {cs.localNamespaceName})
      localPath == namespaceAssignment.namespace
      localName == localPath[Len(localPath)]
      next ==
        IF exported.defined
        THEN LET named == [cs EXCEPT !.namespaceName = namespaceName]
             IN CASE isNamespace(env, statement) /\ value.type = "ObjectExpression" ->
                       [rewriteNamespaceObject(env, named, namespaceName, value, statement)
                          EXCEPT !.localNamespaceName = namespaceName]
                  [] value.type = "Identifier"
                     /\ "namespace" \in referencedFeature.kinds ->
                       rewriteNamespaceIdentifier(env, named, namespaceName,
                                                  referencedFeature)
                  [] value.type = "Identifier"
                     /\ "namespace" \notin referencedFeature.kinds ->
                       addExport(env,
                         SetStatement(named,
                           ExportNamed(NullNode, <<ExportSpecifier(value, Id(last))>>)),
                         namespaceName, last)
                  [] value.type # "Identifier" /\ isDeclaration(value) ->
                       SetStatement(named,
                         [type |-> "ExportDeclaration", default |-> FALSE,
                          declaration |-> value, loc |-> 0])
                  [] OTHER ->
                       addExport(env,
                         SetStatement([named EXCEPT !.namespaceName = constNamespaceName],
                           ExportNamed(VarDecl("const", Id(constName), value, 0), <<>>)),
                         constNamespaceName, constName)
        ELSE IF isNamespace(env, statement) /\ statement.type = "VariableDeclaration"
        THEN IF statement.declarations[1].id.type = "Identifier"
             THEN [cs EXCEPT !.localNamespaceName = statement.declarations[1].id.name]
             ELSE cs
        ELSE IF cs.localNamespaceName # Undefined /\ cs.localNamespaceName # ""
                /\ namespaceAssignment.defined
        THEN addExport(env,
               SetStatement([cs EXCEPT !.namespaceName = Join(localPath)],
                 ExportNamed(VarDecl("const", Id(localName),
                                     namespaceAssignment.value, 0), <<>>)),
               Join(localPath), localName)
        ELSE cs
  IN IF cs.currentStatementIndex < 0 THEN [cs EXCEPT !.threw = TRUE]
     ELSE IF next.threw THEN next
     ELSE [next EXCEPT !.currentStatementIndex = @ + 1]

rewriteNamespaceThisReferences(body, namespaceName) ==
  IF namespaceName = Undefined THEN body
  ELSE Visit("exports", [namespaceName |-> namespaceName], Program(body),
             NullNode).node.body

rewriteLocalNamespacedReferences(body, namespaceName) ==
  IF namespaceName = Undefined THEN body
  ELSE Visit("local", [namespaceName |-> namespaceName], Program(body),
             NullNode).node.body

rewriteExcludedReferences(body) ==
  Visit("excluded", [referenceExcludes |-> ReferenceExcludes], Program(body),
        NullNode).node.body

\* recast.print(program).code + '\n': '' is <<>>, and a printed program its
\* statements and the final line break.
NewLine == [type |-> "NewLine"]
print(body) == Append(body, NewLine)

\* ------------------------------------------------------------------- state

VARIABLES
  documents,          \* the analysis: document -> url, imports, scripts, ...
  excludes,           \* analysisConverter._excludes: URLs never followed
  modules,            \* analysisConverter.modules: JS URL -> module object
  objs,               \* the JsModule objects, by identity
  namespacedExports,  \* analysisConverter.namespacedExports
  stack,              \* the DocumentConverters whose convert() is running
  tried,              \* the documents AnalysisConverter.convert has been through
  console,            \* console.log / console.error output
  constructed,        \* history: document -> converters constructed for it
  viaDependency,      \* history: documents constructed from convertDependencies
  completed,          \* history: documents whose convert() has returned
  lookupLog,          \* history: convertDependencies' registry lookups
  rewriteLog,         \* history: dependencies' state when a rewrite started
  addExportLog,       \* history: [document, path] of every addExport call
  apiCalls,           \* history: direct constructions by a client
  requested           \* history: the document this step asked to convert, or 0

vars == <<documents, excludes, modules, objs, namespacedExports, stack, tried,
          console, constructed, viaDependency, completed, lookupLog, rewriteLog,
          addExportLog, apiCalls, requested>>

analysis == <<documents, excludes>>
history == <<constructed, viaDependency, completed, lookupLog, rewriteLog,
             addExportLog>>

\* The HTML documents of the analysis: b.html, sub/my-el.html, sub/b.html.
Docs == {1, 2, 3}
DocUrl(n) ==
  CASE n = 1 -> Url(<<>>, <<"b">>, "html")
    [] n = 2 -> Url(<<"sub">>, <<"my", "el">>, "html")
    [] OTHER -> Url(<<"sub">>, <<"b">>, "html")

NsName(n) == "N" \o ToString(n)

top == stack[Len(stack)]
below == SubSeq(stack, 1, Len(stack) - 1)
SetTop(f) == stack' = Append(below, f)

\* The module object of a converter, and the registry as URL -> module.
ModuleOf(f) == objs[f.module]
Registry == [k \in DOMAIN modules |-> objs[modules[k]]]

Env(f) ==
  [document |-> documents[f.doc], jsUrl |-> f.jsUrl, hasScript |-> f.hasScript,
   excludes |-> excludes, modules |-> Registry]

Cs(f) ==
  [body |-> f.body, currentStatementIndex |-> f.currentStatementIndex,
   localNamespaceName |-> f.localNamespaceName, namespaceName |-> f.namespaceName,
   exports |-> ModuleOf(f).exports, namespacedExports |-> namespacedExports,
   addExportLog |-> <<>>, threw |-> FALSE]

\* ------------------------------------------------------------ the analysis

\* The script of the n-th document in the document-graph specifications: it
\* declares the namespace Polymer.N<n> with one member and calls that member
\* of every document's namespace, its own included.
RECURSIVE MemberRef(_)
MemberRef(path) ==
  IF Len(path) = 1 THEN (IF path[1] = "this" THEN This ELSE Id(path[1]))
  ELSE Member(MemberRef(SubSeq(path, 1, Len(path) - 1)), Id(path[Len(path)]))
DocProgram(n) ==
  <<ExprStmt(Assign(MemberRef(<<"Polymer", NsName(n)>>),
                    Obj(<<Prop(Id("m"), Lit("1"))>>)), 1)>>
  \o [e \in 1..Cardinality(Docs) |->
        ExprStmt(Call(MemberRef(<<"Polymer", NsName(e), "m">>), <<>>), 1 + e)]

NamespaceFeature(id, loc) ==
  [kinds |-> {"namespace"}, identifiers |-> {id}, astNode |-> [loc |-> loc]]

\* The HTML imports of document n among the edges, in document order.
RECURSIVE ImportsOf(_, _, _)
ImportsOf(n, edges, e) ==
  IF e \notin Docs THEN <<>>
  ELSE (IF <<n, e>> \in edges THEN <<[url |-> DocUrl(e), document |-> e]>> ELSE <<>>)
       \o ImportsOf(n, edges, e + 1)

GraphDocument(n, edges, scriptCount) ==
  [url |-> DocUrl(n),
   imports |-> ImportsOf(n, edges, 1),
   scripts |-> [i \in 1..scriptCount |-> [body |-> DocProgram(n)]],
   features |-> IF scriptCount = 1
                THEN <<NamespaceFeature("Polymer." \o NsName(n), 1)>> ELSE <<>>,
   elements |-> IF n = 1 THEN <<"link", "div">> ELSE <<"link", "script">>]

InitRun ==
  /\ modules = EmptyMap
  /\ objs = <<>>
  /\ namespacedExports = EmptyMap
  /\ stack = <<>>
  /\ tried = {}
  /\ console = <<>>
  /\ constructed = [d \in Docs |-> 0]
  /\ viaDependency = {}
  /\ completed = {}
  /\ lookupLog = {}
  /\ rewriteLog = {}
  /\ addExportLog = <<>>
  /\ apiCalls = 0
  /\ requested = 0

\* Any graph of at most MaxEdges HTML imports over the documents; at most one
\* document has no script or two scripts, or sub/b.html is excluded.
Init ==
  /\ \E edges \in SUBSET (Docs \X Docs) :
       \E odd \in {0} \cup Docs :
         \E count \in {0, 2} :
           /\ Cardinality(edges) <= MaxEdges
           /\ odd = 0 => count = 0
           /\ documents =
                [d \in Docs |->
                   GraphDocument(d, edges, IF d = odd THEN count ELSE 1)]
  /\ excludes \in {{}, {DocUrl(3)}}
  /\ excludes # {} => \A d \in Docs : Len(documents[d].scripts) = 1
  /\ InitRun

\* ------------------------------------------------------ document conversion

NewModule(jsUrl) ==
  [url |-> jsUrl, source |-> <<>>, exports |-> {}, importedReferences |-> <<>>]

\* The constructor without its registration of the module (line 116).
NewDocumentConverterUnregistered(d, rest) ==
  LET document == documents[d]
      jsUrl == htmlUrlToJs(document.url, NoFrom)
      scripts == document.scripts
      converter ==
        [doc |-> d, jsUrl |-> jsUrl, module |-> Len(objs) + 1,
         hasProgram |-> Len(scripts) <= 1,
         hasScript |-> Len(scripts) = 1,
         body |-> IF Len(scripts) = 1 THEN scripts[1].body ELSE <<>>,
         currentStatementIndex |-> 0,
         localNamespaceName |-> Undefined, namespaceName |-> Undefined,
         pc |-> "convertDependencies", i |-> 0, refsInput |-> <<>>]
  IN /\ objs' = Append(objs, NewModule(jsUrl))
     /\ modules' = modules
     /\ console' = IF Len(scripts) > 1 THEN Append(console, "multiple scripts")
                   ELSE console
     /\ stack' = Append(rest, converter)
     /\ constructed' = [constructed EXCEPT ![d] = @ + 1]

\* new DocumentConverter(analysisConverter, document), whose convert() the
\* caller then runs above the converters of `rest`.
NewDocumentConverter(d, rest) ==
  LET document == documents[d]
      jsUrl == htmlUrlToJs(document.url, NoFrom)
      scripts == document.scripts
      converter ==
        [doc |-> d, jsUrl |-> jsUrl, module |-> Len(objs) + 1,
         hasProgram |-> Len(scripts) <= 1,
         hasScript |-> Len(scripts) = 1,
         body |-> IF Len(scripts) = 1 THEN scripts[1].body ELSE <<>>,
         currentStatementIndex |-> 0,
         localNamespaceName |-> Undefined, namespaceName |-> Undefined,
         pc |-> "convertDependencies", i |-> 0, refsInput |-> <<>>]
  IN /\ objs' = Append(objs, NewModule(jsUrl))
     /\ modules' = MapSet(modules, jsUrl, Len(objs) + 1)
     /\ console' = IF Len(scripts) > 1 THEN Append(console, "multiple scripts")
                   ELSE console
     /\ stack' = Append(rest, converter)
     /\ constructed' = [constructed EXCEPT ![d] = @ + 1]

\* AnalysisConverter.convertDocument(document).
convertDocument(d, rest) ==
  IF htmlUrlToJs(documents[d].url, NoFrom) \in DOMAIN modules
  THEN /\ stack' = rest
       /\ UNCHANGED <<objs, modules, console, constructed>>
  ELSE NewDocumentConverter(d, rest)

\* AnalysisConverter.convert: one turn of its loop over the documents that are
\* not excluded, in any order; an exception of a conversion is caught here.
Convert(d) ==
  /\ stack = <<>>
  /\ d \notin tried
  /\ documents[d].url \notin excludes
  /\ tried' = tried \cup {d}
  /\ requested' = d
  /\ convertDocument(d, <<>>)
  /\ UNCHANGED <<analysis, namespacedExports, viaDependency, completed, lookupLog,
                 rewriteLog, addExportLog, apiCalls>>

\* The phases of convert(), in its order.
Phases ==
  <<"convertDependencies", "unwrapModuleBody", "rewriteNamespacedReferences",
    "addJsImports", "convertElements", "rewriteNamespaceExports",
    "rewriteNamespaceThisReferences", "rewriteLocalNamespacedReferences",
    "rewriteExcludedReferences", "print">>

\* convert() with the namespace exports rewritten before the references.
NextPhaseExportsFirst(pc) ==
  CASE pc = "convertDependencies" -> "unwrapModuleBody"
    [] pc = "unwrapModuleBody" -> "rewriteNamespaceExports"
    [] pc = "rewriteNamespaceExports" -> "rewriteNamespacedReferences"
    [] pc = "rewriteNamespacedReferences" -> "addJsImports"
    [] pc = "addJsImports" -> "convertElements"
    [] pc = "convertElements" -> "rewriteNamespaceThisReferences"
    [] pc = "rewriteNamespaceThisReferences" -> "rewriteLocalNamespacedReferences"
    [] pc = "rewriteLocalNamespacedReferences" -> "rewriteExcludedReferences"
    [] OTHER -> "print"

\* The phase convert() goes to after the phase pc.
NextPhase(pc) == Phases[IndexOf(Phases, pc) + 2]

Running(pc) == stack # <<>> /\ top.pc = pc

\* An exception leaves convert(): it unwinds every running convert() up to the
\* loop of AnalysisConverter.convert.
Throw ==
  /\ stack' = <<>>
  /\ console' = Append(console, "error")

\* convertDependencies (lines 407-416), one import a step: the import is
\* skipped when the registry has the key computed for it.
ConvertDependenciesSkip ==
  /\ Running("convertDependencies")
  /\ LET document == documents[top.doc]
         htmlImports == getHtmlImports(document, excludes)
     IN /\ top.i < Len(htmlImports)
        /\ LET htmlImport == htmlImports[top.i + 1]
               jsUrl == htmlUrlToJs(htmlImport.url, document.url)
           IN /\ jsUrl \in DOMAIN modules
              /\ lookupLog' = lookupLog \cup
                   {[from |-> top.doc, to |-> htmlImport.document, key |-> jsUrl]}
  /\ SetTop([top EXCEPT !.i = @ + 1])
  /\ requested' = 0
  /\ UNCHANGED <<analysis, modules, objs, namespacedExports, tried, console,
                 constructed, viaDependency, completed, rewriteLog, addExportLog,
                 apiCalls>>

ConvertDependenciesRecurse ==
  /\ Running("convertDependencies")
  /\ LET document == documents[top.doc]
         htmlImports == getHtmlImports(document, excludes)
     IN /\ top.i < Len(htmlImports)
        /\ LET htmlImport == htmlImports[top.i + 1]
               jsUrl == htmlUrlToJs(htmlImport.url, document.url)
           IN /\ jsUrl \notin DOMAIN modules
              /\ lookupLog' = lookupLog \cup
                   {[from |-> top.doc, to |-> htmlImport.document, key |-> jsUrl]}
              /\ requested' = htmlImport.document
              /\ convertDocument(htmlImport.document,
                                 Append(below, [top EXCEPT !.i = @ + 1]))
              /\ viaDependency' =
                   IF htmlUrlToJs(htmlImport.url, NoFrom) \notin DOMAIN modules
                   THEN viaDependency \cup {htmlImport.document}
                   ELSE viaDependency
  /\ UNCHANGED <<analysis, namespacedExports, tried, completed, rewriteLog,
                 addExportLog, apiCalls>>

ConvertDependenciesDone ==
  /\ Running("convertDependencies")
  /\ top.i >= Len(getHtmlImports(documents[top.doc], excludes))
  /\ SetTop([top EXCEPT !.pc = NextPhase(@)])
  /\ requested' = 0
  /\ UNCHANGED <<analysis, modules, objs, namespacedExports, tried, console,
                 history, apiCalls>>

\* unwrapModuleBody; this.program is undefined after the constructor's early
\* return, and reading its body throws.
UnwrapModuleBody ==
  /\ Running("unwrapModuleBody")
  /\ IF top.hasProgram
     THEN /\ SetTop([top EXCEPT !.body = unwrapModuleBody(@),
                                !.pc = NextPhase(@)])
          /\ UNCHANGED console
     ELSE Throw
  /\ requested' = 0
  /\ UNCHANGED <<analysis, modules, objs, namespacedExports, tried, history,
                 apiCalls>>

\* rewriteNamespacedReferences; modules.get(this.jsUrl)! of an unregistered URL
\* is undefined, and reading its importedReferences throws.
RewriteNamespacedReferences ==
  /\ Running("rewriteNamespacedReferences")
  /\ IF top.jsUrl \in DOMAIN modules
     THEN LET module == modules[top.jsUrl]
              r == rewriteNamespacedReferences(Env(top), top.body,
                     namespacedExports, objs[module].importedReferences)
          IN /\ objs' = [objs EXCEPT
                           ![module].importedReferences = r.importedReferences]
             /\ SetTop([top EXCEPT !.body = r.body, !.refsInput = top.body,
                                   !.pc = NextPhase(@)])
             /\ UNCHANGED console
     ELSE /\ Throw
          /\ UNCHANGED objs
  /\ rewriteLog' = rewriteLog \cup
       {[doc |-> top.doc, dep |-> f.document, done |-> f.document \in completed] :
          f \in Range(getHtmlImports(documents[top.doc], excludes))}
  /\ requested' = 0
  /\ UNCHANGED <<analysis, modules, namespacedExports, tried, constructed,
                 viaDependency, completed, lookupLog, addExportLog, apiCalls>>

AddJsImports ==
  /\ Running("addJsImports")
  /\ LET r == addJsImports(Env(top), top.body, top.currentStatementIndex,
                           ModuleOf(top).importedReferences)
     IN SetTop([top EXCEPT !.body = r.body,
                           !.currentStatementIndex = r.currentStatementIndex,
                           !.pc = NextPhase(@)])
  /\ requested' = 0
  /\ UNCHANGED <<analysis, modules, objs, namespacedExports, tried, console,
                 history, apiCalls>>

\* convertElements, then inlineTemplates.
ConvertElements ==
  /\ Running("convertElements")
  /\ LET r == convertElements(Env(top), top.body, top.currentStatementIndex)
     IN SetTop([top EXCEPT !.body = inlineTemplates(Env(top), r.body),
                           !.currentStatementIndex = r.currentStatementIndex,
                           !.pc = NextPhase(@)])
  /\ requested' = 0
  /\ UNCHANGED <<analysis, modules, objs, namespacedExports, tried, console,
                 history, apiCalls>>

\* rewriteNamespaceExports (lines 237-360), one iteration of its loop a step.
RewriteNamespaceExportsStep ==
  /\ Running("rewriteNamespaceExports")
  /\ top.currentStatementIndex < Len(top.body)
  /\ LET r == rewriteNamespaceExportsStep(Env(top), Cs(top))
     IN IF r.threw
        THEN /\ Throw
             /\ UNCHANGED <<objs, namespacedExports, addExportLog>>
        ELSE /\ SetTop([top EXCEPT !.body = r.body,
                                   !.currentStatementIndex = r.currentStatementIndex,
                                   !.localNamespaceName = r.localNamespaceName,
                                   !.namespaceName = r.namespaceName])
             /\ objs' = [objs EXCEPT ![top.module].exports = r.exports]
             /\ namespacedExports' = r.namespacedExports
             /\ addExportLog' = addExportLog \o
                  [i \in 1..Len(r.addExportLog) |->
                     [doc |-> top.doc, path |-> r.addExportLog[i]]]
             /\ UNCHANGED console
  /\ requested' = 0
  /\ UNCHANGED <<analysis, modules, tried, constructed, viaDependency, completed,
                 lookupLog, rewriteLog, apiCalls>>

RewriteNamespaceExportsDone ==
  /\ Running("rewriteNamespaceExports")
  /\ top.currentStatementIndex >= Len(top.body)
  /\ SetTop([top EXCEPT !.pc = NextPhase(@)])
  /\ requested' = 0
  /\ UNCHANGED <<analysis, modules, objs, namespacedExports, tried, console,
                 history, apiCalls>>

RewriteNamespaceThisReferences ==
  /\ Running("rewriteNamespaceThisReferences")
  /\ SetTop([top EXCEPT
               !.body = rewriteNamespaceThisReferences(@, top.namespaceName),
               !.pc = NextPhase(@)])
  /\ requested' = 0
  /\ UNCHANGED <<analysis, modules, objs, namespacedExports, tried, console,
                 history, apiCalls>>

\* rewriteLocalNamespacedReferences(localNamespaceName), then
\* rewriteLocalNamespacedReferences(namespaceName).
RewriteLocalNamespacedReferences ==
  /\ Running("rewriteLocalNamespacedReferences")
  /\ SetTop([top EXCEPT
               !.body = rewriteLocalNamespacedReferences(
                          rewriteLocalNamespacedReferences(@, top.localNamespaceName),
                          top.namespaceName),
               !.pc = NextPhase(@)])
  /\ requested' = 0
  /\ UNCHANGED <<analysis, modules, objs, namespacedExports, tried, console,
                 history, apiCalls>>

RewriteExcludedReferences ==
  /\ Running("rewriteExcludedReferences")
  /\ SetTop([top EXCEPT !.body = rewriteExcludedReferences(@), !.pc = NextPhase(@)])
  /\ requested' = 0
  /\ UNCHANGED <<analysis, modules, objs, namespacedExports, tried, console,
                 history, apiCalls>>

\* The end of convert(): the program is printed into this.module.source and
\* convert() returns to its caller.
SetSource ==
  /\ Running("print")
  /\ objs' = [objs EXCEPT ![top.module].source = print(top.body)]
  /\ stack' = below
  /\ completed' = completed \cup {top.doc}
  /\ requested' = 0
  /\ UNCHANGED <<analysis, modules, namespacedExports, tried, console, constructed,
                 viaDependency, lookupLog, rewriteLog, addExportLog, apiCalls>>

Rewrite ==
  \/ UnwrapModuleBody
  \/ RewriteNamespacedReferences
  \/ AddJsImports
  \/ ConvertElements
  \/ RewriteNamespaceExportsStep
  \/ RewriteNamespaceExportsDone
  \/ RewriteNamespaceThisReferences
  \/ RewriteLocalNamespacedReferences
  \/ RewriteExcludedReferences
  \/ SetSource

Next ==
  \/ \E d \in Docs : Convert(d)
  \/ ConvertDependenciesSkip
  \/ ConvertDependenciesRecurse
  \/ ConvertDependenciesDone
  \/ Rewrite

\* The conversion of the documents of an analysis by AnalysisConverter.convert.
Spec == Init /\ [][Next]_vars

\* A client of the class constructs a converter for a document itself and
\* runs its convert(): new DocumentConverter(analysisConverter, document).
ApiConvert(d) ==
  /\ stack = <<>>
  /\ apiCalls < MaxApiCalls
  /\ apiCalls' = apiCalls + 1
  /\ requested' = d
  /\ NewDocumentConverter(d, <<>>)
  /\ UNCHANGED <<analysis, namespacedExports, tried, viaDependency, completed,
                 lookupLog, rewriteLog, addExportLog>>

\* Single-script documents with at most one HTML import among them.
InitApi ==
  /\ \E edges \in SUBSET (Docs \X Docs) :
       /\ Cardinality(edges) <= 1
       /\ documents = [d \in Docs |-> GraphDocument(d, edges, 1)]
  /\ excludes = {}
  /\ InitRun

NextApi ==
  \/ \E d \in Docs : ApiConvert(d)
  \/ ConvertDependenciesSkip
  \/ ConvertDependenciesRecurse
  \/ ConvertDependenciesDone
  \/ Rewrite

\* Conversions started by constructing DocumentConverters directly.
SpecApi == InitApi /\ [][NextApi]_vars

\* ------------------------------------------------- one document's rewriting

\* Sequences of at most n elements of the set S.
SeqsUpTo(S, n) == UNION {[1..k -> S] : k \in 0..n}

\* The script of sub/b.html in the specifications of one document's rewriting:
\*   Polymer.Foo = {bar: '1', baz: function() {}};   (a namespace)
\*   Polymer.x = '1';
\*   Polymer._polymerFn = function() {};
LibraryProgram ==
  <<ExprStmt(Assign(MemberRef(<<"Polymer", "Foo">>),
                    Obj(<<Prop(Id("bar"), Lit("1")), Prop(Id("baz"), Fn(<<>>))>>)), 1),
    ExprStmt(Assign(MemberRef(<<"Polymer", "x">>), Lit("1")), 2),
    ExprStmt(Assign(MemberRef(<<"Polymer", "_polymerFn">>), Fn(<<>>)), 3)>>

\* b.html holds the script under test and imports sub/b.html, which imports
\* sub/my-el.html, a document without script.
TestDocuments(program, features) ==
  [d \in Docs |->
     CASE d = 1 ->
            [url |-> DocUrl(1),
             imports |-> <<[url |-> DocUrl(3), document |-> 3]>>,
             scripts |-> <<[body |-> program]>>,
             features |-> features,
             elements |-> <<"link", "div">>]
       [] d = 2 ->
            [url |-> DocUrl(2), imports |-> <<>>, scripts |-> <<>>,
             features |-> <<>>, elements |-> <<"link">>]
       [] OTHER ->
            [url |-> DocUrl(3),
             imports |-> <<[url |-> DocUrl(2), document |-> 2]>>,
             scripts |-> <<[body |-> LibraryProgram]>>,
             features |-> <<NamespaceFeature("Polymer.Foo", 1)>>,
             elements |-> <<"link", "script">>]]

\* A running converter of the document under test in the phase pc.
TestRunning(pc) == Running(pc) /\ top.doc = 1

\* The body of the function member of the namespace object below, with `self`
\* where the function's own scope says `this`:
\*   const inner = function() { return this; };
\*   return self.g;
MemberFunctionBody(self) ==
  <<VarDecl("const", Id("inner"), Fn(<<Return(This, 0)>>), 0),
    Return(Member(self, Id("g")), 0)>>

\* The statements that export: the k-th statement of a script, of each kind.
ExportKinds ==
  {"literal", "namespaceObject", "member", "identifier", "localDeclaration",
   "localAssignment", "call"}
ExportStatement(kind, k) ==
  CASE kind = "literal" ->
         ExprStmt(Assign(MemberRef(<<"Polymer", "a">>), Lit("1")), k)
    [] kind = "namespaceObject" ->
         ExprStmt(Assign(MemberRef(<<"Polymer", "Settings">>),
                         Obj(<<Prop(Id("m"), Arrow(Lit("1"))),
                               Prop(Id("g"), Lit("1")),
                               Prop(Id("k"), Lit("2")),
                               Prop(Id("f"), Fn(MemberFunctionBody(This)))
                             >>)), k)
    [] kind = "member" ->
         ExprStmt(Assign(MemberRef(<<"Polymer", "Settings", "g">>), Lit("3")), k)
    [] kind = "identifier" ->
         ExprStmt(Assign(MemberRef(<<"Polymer", "El">>), Id("El")), k)
    [] kind = "localDeclaration" ->
         VarDecl("const", Id("Local"), Obj(<<>>), k)
    [] kind = "localAssignment" ->
         ExprStmt(Assign(MemberRef(<<"Local", "bar">>), Lit("1")), k)
    [] OTHER -> ExprStmt(Call(Id("f"), <<>>), k)

\* The namespace features the analysis reports for a script of these kinds.
ExportFeatures(kinds) ==
  Flatten([k \in 1..Len(kinds) |->
             CASE kinds[k] = "namespaceObject" ->
                    <<NamespaceFeature("Polymer.Settings", k)>>
               [] kinds[k] = "localDeclaration" -> <<NamespaceFeature("Local", k)>>
               [] OTHER -> <<>>])

InitExports ==
  /\ \E kinds \in SeqsUpTo(ExportKinds, MaxStmts) :
       documents =
         TestDocuments([k \in 1..Len(kinds) |-> ExportStatement(kinds[k], k)],
                       ExportFeatures(kinds))
  /\ excludes = {}
  /\ InitRun

\* The conversion of a document whose script assigns to namespaces.
SpecExports == InitExports /\ [][Next]_vars

\* The statements the loop of rewriteNamespaceExports tells apart: the
\* declaration of the namespace El with no and with two members, the same
\* declared by an assignment inside a block, the re-export Polymer.El = El,
\* an assignment to a member of El, and the statements above.
LoopKinds ==
  {"declaration0", "declaration2", "nested", "reexport", "elAssignment",
   "literal", "namespaceObject", "call"}
DeclarationKinds == {"declaration0", "declaration2", "nested"}
\* The location of the statement inside the k-th statement, a block.
NestedLoc(k) == k + 100
LoopStatement(kind, k) ==
  CASE kind = "declaration0" -> VarDecl("const", Id("El"), Obj(<<>>), k)
    [] kind = "declaration2" ->
         VarDecl("const", Id("El"),
                 Obj(<<Prop(Id("a"), Lit("1")), Prop(Id("b"), Arrow(Lit("2")))>>), k)
    [] kind = "nested" ->
         [type |-> "BlockStatement",
          body |-> <<ExprStmt(Assign(Id("El"), Obj(<<Prop(Id("a"), Lit("1"))>>)),
                              NestedLoc(k))>>,
          loc |-> k]
    [] kind = "reexport" ->
         ExprStmt(Assign(MemberRef(<<"Polymer", "El">>), Id("El")), k)
    [] kind = "elAssignment" ->
         ExprStmt(Assign(MemberRef(<<"El", "bar">>), Lit("1")), k)
    [] OTHER -> ExportStatement(kind, k)

\* The namespace features the analysis reports for a script of these kinds:
\* El is known as Polymer.El, at the statement that declares it.
LoopFeatures(kinds) ==
  Flatten([k \in 1..Len(kinds) |->
             CASE kinds[k] \in {"declaration0", "declaration2"} ->
                    <<NamespaceFeature("Polymer.El", k)>>
               [] kinds[k] = "nested" ->
                    <<NamespaceFeature("Polymer.El", NestedLoc(k))>>
               [] kinds[k] = "namespaceObject" ->
                    <<NamespaceFeature("Polymer.Settings", k)>>
               [] OTHER -> <<>>])

\* Scripts of these statements that declare El at most once.
InitLoop ==
  /\ \E kinds \in SeqsUpTo(LoopKinds, MaxStmts) :
       /\ Cardinality({k \in 1..Len(kinds) : kinds[k] \in DeclarationKinds}) <= 1
       /\ documents =
            TestDocuments([k \in 1..Len(kinds) |-> LoopStatement(kinds[k], k)],
                          LoopFeatures(kinds))
  /\ excludes = {}
  /\ InitRun

\* The conversion of a document whose script declares and re-exports a
\* namespace.
SpecLoop == InitLoop /\ [][Next]_vars

\* The statements that refer to namespaces: a chain of member accesses, given
\* by its segments, in a context.
ReferenceChains ==
  {<<"Polymer", "Foo", "bar">>, <<"Polymer", "Foo", "bar", "q">>,
   <<"Polymer", "Foo", "zzz">>, <<"window", "Polymer", "x">>, <<"Polymer">>,
   <<"Polymer", "unknown">>, <<"this", "x">>}
ReferenceContexts == {"argument", "callee"}
\* f(ref);  and  ref().x;
ReferenceStatement(context, ref, k) ==
  IF context = "argument" THEN ExprStmt(Call(Id("f"), <<ref>>), k)
  ELSE ExprStmt(Member(Call(ref, <<>>), Id("x")), k)

InitRefs ==
  /\ \E refs \in SeqsUpTo(ReferenceContexts \X ReferenceChains, MaxStmts) :
       documents =
         TestDocuments([k \in 1..Len(refs) |->
                          ReferenceStatement(refs[k][1], MemberRef(refs[k][2]), k)],
                       <<>>)
  /\ excludes = {}
  /\ InitRun

\* The conversion of a document whose script refers to the names a document it
\* imports has exported.
SpecRefs == InitRefs /\ [][Next]_vars

\* References to the names sub/b.html exports: a member by its name, a member
\* that is not exported (through the namespace), and a plain export.
ImportChains ==
  {<<"Polymer", "Foo", "bar">>, <<"Polymer", "Foo", "zzz">>, <<"Polymer", "x">>}
\* The HTML imports of b.html, in document order: none, sub/my-el.html,
\* sub/b.html, both, and sub/b.html twice.
ImportLists == {<<>>, <<2>>, <<3>>, <<2, 3>>, <<3, 2>>, <<3, 3>>}

\* b.html refers to names of sub/b.html, which it may or may not import;
\* sub/my-el.html may be excluded.
InitImports ==
  /\ \E refs \in SeqsUpTo(ImportChains, MaxStmts) :
       \E imports \in ImportLists :
         documents =
           [TestDocuments([k \in 1..Len(refs) |->
                             ReferenceStatement("argument", MemberRef(refs[k]), k)],
                          <<>>)
              EXCEPT ![1].imports =
                       [i \in 1..Len(imports) |->
                          [url |-> DocUrl(imports[i]), document |-> imports[i]]]]
  /\ excludes \in {{}, {DocUrl(2)}}
  /\ InitRun

\* The conversion of a document that refers to names of a document it may
\* not import.
SpecImports == InitImports /\ [][Next]_vars

\* The member access whose path the configuration excludes.
ExcludedChain == <<"Polymer", "Settings", "x">>
\* A reference to the excluded path as an argument and as a callee, the
\* namespace object Polymer.Settings and the plain export Polymer.a.
ExcludedKinds == {"argument", "callee", "namespaceObject", "literal"}
ExcludedStatement(kind, k) ==
  IF kind \in ReferenceContexts
  THEN ReferenceStatement(kind, MemberRef(ExcludedChain), k)
  ELSE ExportStatement(kind, k)

InitExcluded ==
  /\ \E kinds \in SeqsUpTo(ExcludedKinds, MaxStmts) :
       documents =
         TestDocuments([k \in 1..Len(kinds) |-> ExcludedStatement(kinds[k], k)],
                       ExportFeatures(kinds))
  /\ excludes = {}
  /\ InitRun

\* The conversion of a document whose script refers to an excluded path.
SpecExcluded == InitExcluded /\ [][Next]_vars

\* The statements inside or outside a wrapping function: the directive
\* 'use strict', the plain export Polymer.a and a call.
InnerKinds == {"useStrict", "literal", "call"}
InnerStatement(kind, k) ==
  IF kind = "useStrict" THEN ExprStmt(Lit("use strict"), k)
  ELSE ExportStatement(kind, k)

\* The forms of a script around the statements `inner`:
\*   iife          (function() { inner })();
\*   iifeThenCall  (function() { inner })(); f();
\*   arrow         (() => { inner })();
\*   plain         inner
UnwrapForms == {"iife", "iifeThenCall", "arrow", "plain"}
WrappedProgram(form, inner) ==
  CASE form = "iife" -> <<ExprStmt(Call(Fn(inner), <<>>), NestedLoc(0))>>
    [] form = "iifeThenCall" ->
         <<ExprStmt(Call(Fn(inner), <<>>), NestedLoc(0)),
           ExprStmt(Call(Id("f"), <<>>), NestedLoc(1))>>
    [] form = "arrow" -> <<ExprStmt(Call(Arrow(Block(inner)), <<>>), NestedLoc(0))>>
    [] OTHER -> inner

InitUnwrap ==
  /\ \E form \in UnwrapForms :
       \E kinds \in SeqsUpTo(InnerKinds, MaxStmts) :
         documents =
           TestDocuments(
             WrappedProgram(form, [k \in 1..Len(kinds) |-> InnerStatement(kinds[k], k)]),
             <<>>)
  /\ excludes = {}
  /\ InitRun

\* The conversion of a document whose script may be wrapped in a function.
SpecUnwrap == InitUnwrap /\ [][Next]_vars

\* ---------------------------------------------- document-graph properties

\* AnalysisConverter.convert has been through every document it converts.
Finished ==
  /\ stack = <<>>
  /\ \A d \in Docs : documents[d].url \in excludes \/ d \in tried

Edges ==
  UNION {{<<d, f.document>> : f \in Range(documents[d].imports)} : d \in Docs}

\* The documents an import path of at most n edges leads to from d.
RECURSIVE ReachableIn(_, _)
ReachableIn(d, n) ==
  IF n = 0 THEN {}
  ELSE LET direct == {e \in Docs : <<d, e>> \in Edges}
       IN direct \cup UNION {ReachableIn(e, n - 1) : e \in direct}

Acyclic == \A d \in Docs : d \notin ReachableIn(d, Cardinality(Docs))

\* The module record a converter of document d registers.
RecordOf(d) == Registry[htmlUrlToJs(documents[d].url, NoFrom)]

\* C1: a step that starts the conversion of a document whose JS URL is in the
\* module registry changes neither the registry, nor the record it maps the
\* URL to, nor any record's source, export set or import map, nor the
\* namespaced-export registry.
C1_RegisteredConversionIsNoOp ==
  [][\A d \in Docs :
       (requested' = d /\ htmlUrlToJs(documents[d].url, NoFrom) \in DOMAIN modules)
         => /\ modules' = modules
            /\ Registry' = Registry
            /\ namespacedExports' = namespacedExports]_vars

WorkLeft(f) ==
  (Len(Phases) - IndexOf(Phases, f.pc)) * 64
  + (CASE f.pc = "convertDependencies" ->
            Len(getHtmlImports(documents[f.doc], excludes)) - f.i
       [] f.pc = "rewriteNamespaceExports" ->
            Len(f.body) - f.currentStatementIndex
       [] OTHER -> 0)

RECURSIVE StackWorkLeft(_)
StackWorkLeft(frames) ==
  IF frames = <<>> THEN 0
  ELSE WorkLeft(frames[1]) + StackWorkLeft(SubSeq(frames, 2, Len(frames)))

\* The work the run has left: the running converters' work, and a whole
\* conversion for every document not yet constructed or not yet tried.
RunWorkLeft ==
  StackWorkLeft(stack)
  + (Cardinality({d \in Docs : constructed[d] = 0}) + Cardinality(Docs \ tried))
    * (Len(Phases) + 2) * 64

\* C3: the conversion of every import graph, cyclic ones included, comes to an
\* end: every step leaves less work than it found, of a finite amount, and the
\* converters running at any moment are never more than the documents.
C3_Terminates ==
  /\ [](Len(stack) <= Cardinality(Docs))
  /\ [][RunWorkLeft' < RunWorkLeft /\ RunWorkLeft' >= 0]_vars

\* A document on the recursion stack was reached again through an import of
\* the running converter, and was not constructed a second time.
C3_ReentrantVisitSkipped ==
  \E l \in lookupLog :
    /\ Len(stack) >= 2
    /\ l.from = top.doc
    /\ \E i \in 1..(Len(stack) - 1) : stack[i].doc = l.to
    /\ constructed[l.to] = 1
    /\ ~Acyclic

\* C4: in an acyclic graph every imported document that is not excluded has
\* completed its conversion when the importer's rewriteNamespacedReferences
\* starts, and no excluded document is converted as a dependency.
C4_DependencyCompleteBeforeRewrite ==
  /\ Acyclic => \A r \in rewriteLog : r.done
  /\ \A d \in viaDependency : documents[d].url \notin excludes

C10_MultipleScriptsSkipped ==
  /\ \A d \in Docs :
       (constructed[d] > 0 /\ Len(documents[d].scripts) > 1) =>
         /\ "multiple scripts" \in Range(console)
         /\ RecordOf(d) = NewModule(htmlUrlToJs(documents[d].url, NoFrom))
  /\ "error" \notin Range(console)
  /\ Finished =>
       \A d \in Docs :
         (documents[d].url \notin excludes /\ Len(documents[d].scripts) <= 1) =>
           d \in completed /\ RecordOf(d).source # <<>>

\* ------------------------------------------- properties of the rewriting

\* The names a statement of a module exports.
ExportedBy(statement) ==
  IF statement.type = "ExportNamedDeclaration"
  THEN CASE statement.declaration.type = "VariableDeclaration" ->
              {statement.declaration.declarations[1].id.name}
         [] statement.declaration.type = "FunctionDeclaration" ->
              {statement.declaration.id.name}
         [] OTHER ->
              {statement.specifiers[i].exported.name :
                 i \in 1..Len(statement.specifiers)}
  ELSE IF statement.type = "ExportDeclaration"
  THEN {statement.declaration.id.name}
  ELSE {}

ExportedNames(body) == UNION {ExportedBy(body[k]) : k \in 1..Len(body)}

\* C5: when rewriteNamespaceExports has finished, the export set of the module
\* record is the set of the names the statements of the program export.
C5_ExportSetIsExportedNames ==
  Running("rewriteNamespaceThisReferences") =>
    ModuleOf(top).exports = ExportedNames(top.body)

\* C6: addExport is called at most once for a namespace-qualified path in the
\* conversion of a document.
C6_AddExportOncePerPath ==
  \A i, j \in 1..Len(addExportLog) :
    i # j => addExportLog[i] # addExportLog[j]

\* The statement declares `export let name = ...`.
IsLetExport(statement, name) ==
  /\ statement.type = "ExportNamedDeclaration"
  /\ statement.declaration.type = "VariableDeclaration"
  /\ statement.declaration.kind = "let"
  /\ statement.declaration.declarations[1].id.name = name

\* The mutable-export configuration lists the member for the namespace path.
ListedMutable(path, name) ==
  path \in DOMAIN MutableExports /\ name \in Range(MutableExports[path])

\* C8: of a namespace object literal that has been lowered, the members the
\* mutable-export configuration lists for its path, and only they, are
\* declared with `let`.
C8_ListedMembersAreLet ==
  Running("rewriteNamespaceThisReferences") =>
    \A k \in 1..Len(top.refsInput) :
      LET statement == top.refsInput[k]
          exported == getExport(statement, Namespaces)
      IN (/\ exported.defined
          /\ isNamespace(Env(top), statement)
          /\ exported.value.type = "ObjectExpression") =>
           \A i \in 1..Len(exported.value.properties) :
             LET key == exported.value.properties[i].key
             IN key.type = "Identifier" =>
                  (ListedMutable(Join(exported.namespace), key.name)
                     <=> \E j \in 1..Len(top.body) : IsLetExport(top.body[j], key.name))

\* The dotted path of the first n segments of a chain; window is no segment
\* of a path.
PathOfPrefix(chain, n) ==
  Join(IF chain[1] = "window" THEN SubSeq(chain, 2, n) ELSE SubSeq(chain, 1, n))

\* The lengths of the member-access prefixes of a chain whose path is a key of
\* the namespaced-export registry.
RegisteredPrefixes(chain) ==
  {n \in 2..Len(chain) : PathOfPrefix(chain, n) \in DOMAIN namespacedExports}

Longest(lengths) == CHOOSE n \in lengths : \A m \in lengths : m <= n

\* The registry entry a reference by the chain resolves to: that of its longest
\* registered prefix, or of the chain when it is a namespace root on its own.
IsReference(chain) ==
  \/ RegisteredPrefixes(chain) # {}
  \/ (Len(chain) = 1 /\ chain[1] \in Namespaces
      /\ chain[1] \in DOMAIN namespacedExports)
ReferredEntry(chain) ==
  IF Len(chain) = 1 THEN namespacedExports[chain[1]]
  ELSE namespacedExports[PathOfPrefix(chain, Longest(RegisteredPrefixes(chain)))]

\* The local name a registry entry is imported under.
AliasOf(entry) ==
  IF entry.name = "*"
  THEN "$$" \o dashToCamelCase(entry.url.base)
  ELSE "$" \o entry.name

\* The chain with its longest registered prefix replaced by the alias.
Rewritten(chain) ==
  IF ~IsReference(chain) THEN chain
  ELSE IF Len(chain) = 1 THEN <<AliasOf(ReferredEntry(chain))>>
  ELSE <<AliasOf(ReferredEntry(chain))>>
       \o SubSeq(chain, Longest(RegisteredPrefixes(chain)) + 1, Len(chain))

\* An import map as the set of its <<URL, name>> pairs.
ImportPairs(importedReferences) ==
  UNION {{<<importedReferences[i].url, n>> : n \in Range(importedReferences[i].names)} :
           i \in 1..Len(importedReferences)}

\* C9: after rewriteNamespacedReferences every chain has its longest
\* registered prefix replaced by the alias of the registered name, a chain
\* without one is as it was, and the import map of the module holds exactly
\* the names referred to, under the URL of the module that exports them.
C9_LongestRegisteredChainReplaced ==
  TestRunning("addJsImports") =>
    /\ Len(top.body) = Len(top.refsInput)
    /\ \A k \in 1..Len(top.refsInput) :
         \E context \in ReferenceContexts, chain \in ReferenceChains :
           /\ top.refsInput[k] = ReferenceStatement(context, MemberRef(chain), k)
           /\ top.body[k] =
                ReferenceStatement(context, MemberRef(Rewritten(chain)), k)
    /\ ImportPairs(ModuleOf(top).importedReferences) =
         {<<htmlUrlToJs(ReferredEntry(chain).url, documents[top.doc].url),
            ReferredEntry(chain).name>> :
            chain \in {c \in ReferenceChains :
                         /\ IsReference(c)
                         /\ \E k \in 1..Len(top.refsInput) :
                              \E context \in ReferenceContexts :
                                top.refsInput[k] =
                                  ReferenceStatement(context, MemberRef(c), k)}}

\* A reference into a registered name, Polymer.Foo.bar.q, has been rewritten
\* to $bar.q, and a reference to the unregistered Polymer.unknown left alone.
C9_PrefixReplaced ==
  /\ TestRunning("addJsImports")
  /\ "Polymer" \in DOMAIN namespacedExports
  /\ \E k \in 1..Len(top.body), context \in ReferenceContexts :
       /\ top.refsInput[k] =
            ReferenceStatement(context, MemberRef(<<"Polymer", "Foo", "bar", "q">>), k)
       /\ top.body[k] = ReferenceStatement(context, MemberRef(<<"$bar", "q">>), k)
  /\ \E k \in 1..Len(top.body), context \in ReferenceContexts :
       top.body[k] =
         ReferenceStatement(context, MemberRef(<<"Polymer", "unknown">>), k)

\* ---------------------------------------------------- this in lowered members

\* C11: after rewriteNamespaceThisReferences, the function lowered from the
\* member f of the namespace Polymer.Settings has every `this` of its own
\* scope replaced by an identifier naming Polymer.Settings, whatever
\* statements follow the namespace object, and the `this` of the function
\* expression nested in it is as it was.
C11_ThisNamesOwningNamespace ==
  TestRunning("rewriteLocalNamespacedReferences") =>
    \A k \in 1..Len(top.body) :
      LET statement == top.body[k]
      IN (/\ statement.type = "ExportNamedDeclaration"
          /\ statement.declaration.type = "FunctionDeclaration"
          /\ statement.declaration.id.name = "f") =>
           statement.declaration.body =
             Block(MemberFunctionBody(Id("Polymer.Settings")))

\* --------------------------------------------- the re-export of a namespace

\* The feature the document declares for the path a statement assigns to.
FeatureOf(statement) ==
  FindFeature(documents[top.doc].features,
              Join(getExport(statement, Namespaces).namespace))

\* The top-level statements of the program that hold a node.
HoldersOf(body, astNode) ==
  {k \in 1..Len(body) : FindNode(body[k], astNode) # NullNode}

\* The loop is about to examine Polymer.X = X, where X is a declared
\* namespace whose declaration is in the program.
ReexportAtCursor ==
  /\ TestRunning("rewriteNamespaceExports")
  /\ top.currentStatementIndex >= 0
  /\ top.currentStatementIndex < Len(top.body)
  /\ LET statement == top.body[top.currentStatementIndex + 1]
         exported == getExport(statement, Namespaces)
     IN /\ exported.defined
        /\ exported.value.type = "Identifier"
        /\ "namespace" \in FeatureOf(statement).kinds
        /\ HoldersOf(top.body, FeatureOf(statement).astNode) # {}

\* The program the claim describes after that step: the statement holding
\* the declaration replaced by the exports of the members, the assignment
\* removed, every other statement as it was.
ExpectedAfterReexport ==
  LET body == top.body
      c == top.currentStatementIndex + 1
      feature == FeatureOf(body[c])
      d == CHOOSE k \in HoldersOf(body, feature.astNode) : TRUE
      declaration == FindNode(body[d], feature.astNode)
      object == IF declaration.type = "VariableDeclaration"
                THEN declaration.declarations[1].init
                ELSE declaration.expression.right
      exports == getNamespaceExports(object.properties, <<>>)
  IN Flatten([k \in 1..Len(body) |->
                IF k = d THEN [i \in 1..Len(exports) |-> exports[i].node]
                ELSE IF k = c THEN <<>>
                ELSE <<body[k]>>])

\* C12: the step of rewriteNamespaceExports at Polymer.X = X, X a declared
\* namespace, replaces exactly the statement holding the declaration of X by
\* the exports of its members and removes exactly the assignment, wherever
\* the declaration is and however many members it has.
C12_ReexportReplacesDeclarationOnly ==
  [][ReexportAtCursor => (stack' # <<>> /\ top'.body = ExpectedAfterReexport)]_vars

\* ------------------------------------------------------ the import section

\* The import declarations of a program, in order.
ImportsOfBody(body) == SelectSeq(body, LAMBDA st : st.type = "ImportDeclaration")

\* The import specifiers of the HTML imports a document follows.
ExplicitUrls(d) ==
  {htmlUrlToJs(f.url, documents[d].url) :
     f \in Range(getHtmlImports(documents[d], excludes))}

IsNamespaceImport(declaration) ==
  /\ Len(declaration.specifiers) = 1
  /\ declaration.specifiers[1].type = "ImportNamespaceSpecifier"

\* The names a declaration imports by name.
NamedBy(declaration) ==
  IF IsNamespaceImport(declaration) THEN {}
  ELSE {declaration.specifiers[i].imported.name :
          i \in 1..Len(declaration.specifiers)}

\* C13: after addJsImports the program imports exactly the HTML imports the
\* document follows and the keys of its import map; the declarations of a
\* URL are together, at most one of each style; those of the HTML imports
\* come before those of the URLs only referred to; a URL has a namespace
\* import exactly when '*' was recorded for it, imports by name exactly the
\* other names recorded, and is a bare import exactly when none was.
C13_ImportsExplicitThenImplicit ==
  Running("convertElements") =>
    LET imports == ImportsOfBody(top.body)
        references == ModuleOf(top).importedReferences
        explicit == ExplicitUrls(top.doc)
        urls == explicit \cup RefsKeys(references)
        At(u) == {i \in 1..Len(imports) : imports[i].source.url = u}
    IN /\ {imports[i].source.url : i \in 1..Len(imports)} = urls
       /\ \A u \in urls :
            LET names == Range(RefsGet(references, u))
            IN /\ \A i \in At(u), j \in At(u) : \A k \in i..j : k \in At(u)
               /\ Cardinality({i \in At(u) : IsNamespaceImport(imports[i])})
                    = (IF "*" \in names THEN 1 ELSE 0)
               /\ Cardinality({i \in At(u) : ~IsNamespaceImport(imports[i])})
                    = (IF names \subseteq {"*"} /\ names # {} THEN 0 ELSE 1)
               /\ UNION {NamedBy(imports[i]) : i \in At(u)} = names \ {"*"}
               /\ (\E i \in At(u) : imports[i].specifiers = <<>>) <=> names = {}
       /\ \A i, j \in 1..Len(imports) :
            (imports[i].source.url \in explicit
             /\ imports[j].source.url \notin explicit) => i < j

\* b.html imports sub/my-el.html and refers to Polymer.Foo.bar and through
\* the namespace Polymer.Foo of sub/b.html, which it does not import: a bare
\* import, then the namespace import and the import by name.
C13_BareThenNamespaceThenNamed ==
  /\ TestRunning("convertElements")
  /\ LET imports == ImportsOfBody(top.body)
     IN /\ Len(imports) = 3
        /\ imports[1].specifiers = <<>>
        /\ imports[1].source.url = htmlUrlToJs(DocUrl(2), DocUrl(1))
        /\ IsNamespaceImport(imports[2])
        /\ NamedBy(imports[3]) = {"bar"}
        /\ imports[3].source.url = htmlUrlToJs(DocUrl(3), DocUrl(1))
        /\ imports[3].source.url \notin ExplicitUrls(1)

\* ------------------------------------------------- the layout of the program

\* The elements of a document that are kept as markup.
GenericElements(d) ==
  SelectSeq(documents[d].elements, LAMBDA e : e \notin elementBlacklist)

\* The statements are the four that put the markup into the document.
IsMarkup(statements, elements) ==
  /\ Len(statements) = 4
  /\ statements[1].type = "VariableDeclaration"
  /\ statements[1].declarations[1].id = Id("$_documentContainer")
  /\ statements[2].expression.type = "CallExpression"
  /\ statements[2].expression.callee.property = Id("setAttribute")
  /\ statements[3].expression.type = "AssignmentExpression"
  /\ statements[3].expression.left.property = Id("innerHTML")
  /\ statements[3].expression.right = TemplateLiteral(elements)
  /\ statements[4].expression.type = "CallExpression"
  /\ statements[4].expression.callee.property = Id("appendChild")

\* After addJsImports: the import declarations, then the statements of the
\* script in their order, the cursor at the first of them.
ImportsThenScript ==
  LET imports == ImportsOfBody(top.body)
      n == Len(imports)
  IN /\ SubSeq(top.body, 1, n) = imports
     /\ top.currentStatementIndex = n
     /\ Len(top.body) = n + Len(top.refsInput)
     /\ \A k \in 1..Len(top.refsInput) :
          LocOf(top.body[n + k]) = LocOf(top.refsInput[k])

\* The step of convertElements puts the four markup statements between the
\* import declarations and the statements of the script exactly when the
\* document has an element that is kept, and the cursor at the first
\* statement of the script.
MarkupBetween ==
  LET n == Len(ImportsOfBody(top.body))
      script == SubSeq(top.body, n + 1, Len(top.body))
      elements == GenericElements(top.doc)
      added == Len(top'.body) - Len(top.body)
      markup == SubSeq(top'.body, n + 1, n + added)
  IN /\ stack' # <<>>
     /\ added = (IF elements # <<>> THEN 4 ELSE 0)
     /\ top'.body = SubSeq(top.body, 1, n) \o markup \o script
     /\ elements # <<>> => IsMarkup(markup, elements)
     /\ top'.currentStatementIndex = n + added
     /\ top'.pc = "rewriteNamespaceExports"

Remaining(f) == SubSeq(f.body, f.currentStatementIndex + 1, Len(f.body))

\* The statements from the cursor on are the last statements of the script,
\* in their order: those the loop has not examined yet.
RemainingAreUnexamined ==
  LET remaining == Remaining(top)
      examined == Len(top.refsInput) - Len(remaining)
  IN /\ examined >= 0
     /\ \A k \in 1..Len(remaining) :
          LocOf(remaining[k]) = LocOf(top.refsInput[examined + k])

\* C15: at the top of every iteration of the loop of rewriteNamespaceExports
\* the cursor is between 0 and the length of the program and the statements
\* from the cursor on are the statements of the script not examined yet;
\* an iteration examines the first of them and leaves the others for the
\* next iterations; the loop ends with the cursor at the length of the
\* program.
C15_LoopExaminesEachStatementOnce ==
  /\ [](Running("rewriteNamespaceExports") =>
          /\ top.currentStatementIndex >= 0
          /\ top.currentStatementIndex <= Len(top.body)
          /\ RemainingAreUnexamined)
  /\ [][(Running("rewriteNamespaceExports")
          /\ top.currentStatementIndex < Len(top.body)) =>
          (/\ stack' # <<>>
           /\ Len(Remaining(top')) = Len(Remaining(top)) - 1)]_vars
  /\ [](Running("rewriteNamespaceThisReferences") =>
          top.currentStatementIndex = Len(top.body))

\* ------------------------------------------------------ excluded references

\* C16: when rewriteExcludedReferences has run, every member access of the
\* script by the excluded path Polymer.Settings.x is the identifier
\* `undefined`, whatever the registry holds and whatever namespace the
\* document declares.
C16_ExcludedReferencesAreUndefined ==
  TestRunning("print") =>
    \A k \in 1..Len(top.refsInput) :
      \A context \in ReferenceContexts :
        top.refsInput[k] = ReferenceStatement(context, MemberRef(ExcludedChain), k)
          => \E j \in 1..Len(top.body) :
               top.body[j] = ReferenceStatement(context, Id("undefined"), k)

\* ------------------------------------------------------- the unwrapped body

\* The program is one statement that calls a function expression.
CallsFunctionExpression(body) ==
  /\ Len(body) = 1
  /\ body[1].type = "ExpressionStatement"
  /\ body[1].expression.type = "CallExpression"
  /\ body[1].expression.callee.type = "FunctionExpression"

\* The statements without a leading 'use strict' directive.
WithoutDirective(statements) ==
  IF statements # <<>> /\ statements[1] = ExprStmt(Lit("use strict"), LocOf(statements[1]))
  THEN Tail(statements)
  ELSE statements

\* C17: unwrapModuleBody makes the statements of the function, without a
\* leading 'use strict' directive, the program when the program is one
\* statement that calls a function expression, and leaves every other
\* program as it is.
C17_UnwrappedWithoutDirective ==
  [][TestRunning("unwrapModuleBody") =>
       (/\ stack' # <<>>
        /\ top'.body =
             IF CallsFunctionExpression(top.body)
             THEN WithoutDirective(top.body[1].expression.callee.body.body)
             ELSE top.body)]_vars

====
